---- MODULE Spec2Model ----
(***************************************************************************)
(* Model of pylib/troubleshoot/openrazer.py: troubleshoot(_), the          *)
(* OpenRazer troubleshooter of Polychromatic.                              *)
(*                                                                         *)
(* troubleshoot() is a straight-line sequence of checks inside one         *)
(* try/except.  Each check is one action; what a check reads from the      *)
(* host (files, tools, the network) is an input of its action, drawn from  *)
(* the input sets of the specification.                                    *)
(***************************************************************************)
EXTENDS Integers, Sequences, FiniteSets, TLC

VARIABLES
    PYTHON_LIB_PRESENT,  \* module-level flag, lines 25-29
    rclient_version,     \* rclient.__version__ as <<major, minor, patch>>, <<>> without the library
    pc,                  \* the statement troubleshoot() is about to run
    results,             \* the list `results`
    outcome,             \* what troubleshoot() has returned, if it has
    exc,                 \* the exception that reached the outer handler, if any
    attempted,           \* names of the checks that have started
    io,                  \* kinds of host access made so far
    uname,               \* uname.sysname, "" before os.uname()
    locals,              \* the other local variables of troubleshoot()
    seen                 \* the host facts the run has read

vars == <<PYTHON_LIB_PRESENT, rclient_version, pc, results, outcome, exc,
          attempted, io, uname, locals, seen>>

----------------------------------------------------------------------------
(* Python values *)

\* True / False / None of the "passed" key.
PyTrue == "True"
PyFalse == "False"
PyNone == "None"

PyBool(b) == IF b THEN PyTrue ELSE PyFalse

\* Truthiness of a value that is None, True or False.
Truthy(v) == v = PyTrue

\* The classes an exception type is an instance of.
Bases(type) ==
    CASE type = "KeyError"          -> {"KeyError", "LookupError", "Exception"}
      [] type = "IndexError"        -> {"IndexError", "LookupError", "Exception"}
      [] type = "ValueError"        -> {"ValueError", "Exception"}
      [] type = "AttributeError"    -> {"AttributeError", "Exception"}
      [] type = "TypeError"         -> {"TypeError", "Exception"}
      [] type = "FileNotFoundError" -> {"FileNotFoundError", "OSError", "Exception"}
      [] type = "PermissionError"   -> {"PermissionError", "OSError", "Exception"}
      [] type = "ConnectionError"   -> {"ConnectionError", "OSError", "Exception"}
      [] OTHER                      -> {type}

\* `except cls:` catches an exception of this type.
Catches(cls, type) == cls \in Bases(type)

NoExc == [type |-> "", cause |-> "", at |-> ""]

----------------------------------------------------------------------------
(* The checks, by their test_name *)

DaemonInstalledName == "Daemon is installed"
DaemonRunningName == "Daemon is running"
PythonLibraryName == "Python library is installed"
DkmsSourcesName == "DKMS sources are installed"
DkmsBuiltName == "DKMS module has been built for this kernel version"
ModuleProbeName == "DKMS module can be probed"
ModuleLoadedName == "DKMS module is currently loaded"
SecureBootName == "Check Secure Boot (EFI) status"
PlugdevName == "User account has been added to the 'plugdev' group"
LogPermissionName == "Check OpenRazer log for plugdev permission errors"
UnsupportedHardwareName == "Check for unsupported hardware"
LatestVersionName == "OpenRazer is the latest version"

\* results.insert(0, ...) instead of results.append(...).
InsertResult(rs, name, passed) == <<[test_name |-> name, passed |-> passed]>> \o rs

\* results.append({"test_name": name, ..., "passed": passed})
AppendResult(rs, name, passed) == Append(rs, [test_name |-> name, passed |-> passed])

Running == [kind |-> "Running", report |-> <<>>]

OuterHandlerClassOSError == "OSError"

\* The class the handler of line 317 names.
OuterHandlerClass == "Exception"

\* except Exception as e: return common.get_exception_as_string(e)
\* An exception the handler does not catch leaves troubleshoot() raised.
OuterHandler(e) ==
    IF Catches(OuterHandlerClass, e.type)
    THEN [kind |-> "Fatal", report |-> <<>>]
    ELSE [kind |-> "Raised", report |-> <<>>]

----------------------------------------------------------------------------
(* Strings: a string is a sequence of one-character strings *)

HexDigits == <<"0", "1", "2", "3", "4", "5", "6", "7", "8", "9",
               "a", "b", "c", "d", "e", "f">>

\* str.upper() on one character.
UpperChar(c) ==
    CASE c = "a" -> "A" [] c = "b" -> "B" [] c = "c" -> "C"
      [] c = "d" -> "D" [] c = "e" -> "E" [] c = "f" -> "F"
      [] c = "x" -> "X" [] c = "w" -> "W"
      [] OTHER -> c

\* str.upper()
Upper(s) == [i \in 1..Len(s) |-> UpperChar(s[i])]

RECURSIVE HexDigitsOf(_)
HexDigitsOf(n) ==
    IF n < 16 THEN <<HexDigits[n + 1]>>
    ELSE Append(HexDigitsOf(n \div 16), HexDigits[(n % 16) + 1])

\* hex(n) for n >= 0: "0x" and the lowercase digits.
Hex(n) == <<"0", "x">> \o HexDigitsOf(n)

\* s[2:]
From2(s) == SubSeq(s, 3, Len(s))

RECURSIVE RJust(_, _, _)
\* s.rjust(width, fill)
RJust(s, width, fill) ==
    IF Len(s) >= width THEN s ELSE RJust(<<fill>> \o s, width, fill)

\* str(hex(v))[2:].upper().rjust(4, '0')
DeviceIdString(v) == RJust(Upper(From2(Hex(v))), 4, "0")

\* The vendor id the filter keeps, "1532".
RazerVid == <<"1", "5", "3", "2">>

----------------------------------------------------------------------------
(* _get_filtered_lsusb_list                                                *)
(*                                                                         *)
(* The output of lsusb is a sequence of lines (split on "\n"); a line is   *)
(* the sequence of its tokens (split on " "); a token is the sequence of   *)
(* its fields (split on ":").  The empty line is <<>>.                     *)

EmptyLine == <<>>

\* usb.split(" ")[5].split(":") and the two subscripts of line 227.
\* raised is the exception type, "" when the line parsed.
ParseLine(usb) ==
    IF Len(usb) < 6
    THEN [raised |-> "IndexError", id |-> <<>>]
    ELSE LET vidpid == usb[6]
         IN  IF Len(vidpid) < 2
             THEN [raised |-> "IndexError", id |-> <<>>]
             ELSE [raised |-> "", id |-> <<Upper(vidpid[1]), Upper(vidpid[2])>>]

\* The class the handler of line 228 names.
LineHandlerClass == "AttributeError"

RECURSIVE ParseLsusb(_, _)
\* The loop of lines 223-229 over the lines not yet read, from all_usb_ids = acc.
ParseLsusb(lines, acc) ==
    IF lines = <<>> THEN [raised |-> "", ids |-> acc]
    ELSE LET usb == Head(lines)
             r == ParseLine(usb)
         IN  IF usb = EmptyLine
             THEN ParseLsusb(Tail(lines), acc)
             ELSE IF r.raised = ""
             THEN ParseLsusb(Tail(lines), Append(acc, r.id))
             ELSE IF Catches(LineHandlerClass, r.raised)
             THEN ParseLsusb(Tail(lines), acc)
             ELSE [raised |-> r.raised, ids |-> acc]

\* The class the handler of line 237 names.
DeviceHandlerClass == "Exception"

RECURSIVE RegisteredIds(_, _)
\* The loop of lines 233-241: a device whose _vid/_pid cannot be read raises
\* inside the try and is skipped by `except Exception: continue`.
RegisteredIds(devices, acc) ==
    IF devices = <<>> THEN acc
    ELSE LET device == Head(devices)
         IN  IF ~device.readable
             THEN IF Catches(DeviceHandlerClass, "TypeError")
                  THEN RegisteredIds(Tail(devices), acc)
                  ELSE acc
             ELSE RegisteredIds(Tail(devices),
                      Append(acc, <<DeviceIdString(device._vid),
                                    DeviceIdString(device._pid)>>))

\* `usb in reg_ids`
InList(x, list) == \E i \in 1..Len(list) : list[i] = x

\* The filter without the vendor test of lines 245-246.
UnregisteredIdsAnyVendor(all_usb_ids, reg_ids, acc) ==
    SelectSeq(all_usb_ids, LAMBDA usb : ~InList(usb, reg_ids))

RECURSIVE UnregisteredIds(_, _, _)
\* The loop of lines 244-251.
UnregisteredIds(all_usb_ids, reg_ids, acc) ==
    IF all_usb_ids = <<>> THEN acc
    ELSE LET usb == Head(all_usb_ids)
         IN  IF usb[1] # RazerVid
             THEN UnregisteredIds(Tail(all_usb_ids), reg_ids, acc)
             ELSE IF InList(usb, reg_ids)
             THEN UnregisteredIds(Tail(all_usb_ids), reg_ids, acc)
             ELSE UnregisteredIds(Tail(all_usb_ids), reg_ids, Append(acc, usb))

\* The class the handler of line 219 names.
LsusbHandlerClass == "FileNotFoundError"

NoList == [raised |-> "", is_list |-> FALSE,
           all_usb_ids |-> <<>>, reg_ids |-> <<>>, unreg_ids |-> <<>>]

\* _get_filtered_lsusb_list(): lsusb is [asked, available, lines], devices is
\* rclient.DeviceManager().devices.  is_list is FALSE for the return of None.
GetFilteredLsusbList(lsusb, devices) ==
    IF ~lsusb.available
    THEN IF Catches(LsusbHandlerClass, "FileNotFoundError")
         THEN NoList
         ELSE [NoList EXCEPT !.raised = "FileNotFoundError"]
    ELSE LET parsed == ParseLsusb(lsusb.lines, <<>>)
             reg == RegisteredIds(devices, <<>>)
         IN  IF parsed.raised # ""
             THEN [NoList EXCEPT !.raised = parsed.raised, !.all_usb_ids = parsed.ids]
             ELSE [raised |-> "", is_list |-> TRUE,
                   all_usb_ids |-> parsed.ids, reg_ids |-> reg,
                   unreg_ids |-> UnregisteredIds(parsed.ids, reg, <<>>)]

----------------------------------------------------------------------------
(* _is_version_newer_then                                                  *)
(*                                                                         *)
(* A version string split on "." is a sequence of parts; a part is the     *)
(* number its decimal digits spell, or NotANumber for a part int() and     *)
(* float() reject.                                                         *)

NotANumber == -1

RECURSIVE Digits(_)
\* How many decimal digits str(n) has.
Digits(n) == IF n < 10 THEN 1 ELSE 1 + Digits(n \div 10)

RECURSIVE Pow10(_)
Pow10(k) == IF k = 0 THEN 1 ELSE 10 * Pow10(k - 1)

\* float(a1 + '.' + a2) > float(b1 + '.' + b2), both sides scaled by the
\* two powers of ten so that the comparison is one of integers.
FloatGreater(a1, a2, b1, b2) ==
    (a1 * Pow10(Digits(a2)) + a2) * Pow10(Digits(b2))
        > (b1 * Pow10(Digits(b2)) + b2) * Pow10(Digits(a2))

\* int() or float() raises ValueError on some part.
VersionRaises(verA, verB) ==
    \/ \E i \in 1..3 : verA[i] = NotANumber
    \/ \E i \in 1..3 : verB[i] = NotANumber

\* _is_version_newer_then(verA, verB) for parts that are numbers.
IsVersionNewerThen(verA, verB) ==
    LET is_new0 == FALSE
        is_new1 == IF verA[1] > verB[1] THEN TRUE ELSE is_new0
        is_new2 == IF FloatGreater(verA[2], verA[3], verB[2], verB[3])
                   THEN TRUE ELSE is_new1
    IN  is_new2

----------------------------------------------------------------------------
(* troubleshoot()                                                          *)

NoLocals ==
    [daemon_pid_file |-> "",            \* "xdg" or "fallback" once set
     dkms_installed_built |-> PyNone,
     unsupported_devices |-> NoList,    \* what _get_filtered_lsusb_list returned
     remote_version |-> <<>>]           \* <<>> is None

NoSeen ==
    [pid |-> "unseen",
     efi |-> "unseen",
     sb_content |-> <<>>,
     log |-> "unseen",
     lsusb |-> [asked |-> FALSE, available |-> FALSE, lines |-> <<>>],
     devices |-> <<>>,
     request |-> [asked |-> FALSE, raised |-> FALSE, status_code |-> 0, text |-> <<>>]]

\* The state on entry, line 36.  I holds the input sets of the specification.
InitWith(I) ==
    /\ PYTHON_LIB_PRESENT \in I.lib
    /\ rclient_version \in (IF PYTHON_LIB_PRESENT THEN I.local_version ELSE {<<>>})
    /\ pc = "uname"
    /\ results = <<>>
    /\ outcome = Running
    /\ exc = NoExc
    /\ attempted = {}
    /\ io = {}
    /\ uname = ""
    /\ locals = NoLocals
    /\ seen = NoSeen

\* An exception leaves the try body: the handler of lines 317-320 returns.
Raise(type, cause, at) ==
    /\ exc' = [type |-> type, cause |-> cause, at |-> at]
    /\ outcome' = OuterHandler([type |-> type, cause |-> cause, at |-> at])
    /\ pc' = "done"
    /\ UNCHANGED results

\* The check ends and the next statement is `next`.
Continue(next, rs) ==
    /\ pc' = next
    /\ results' = rs
    /\ UNCHANGED <<exc, outcome>>

PlatformUnsupportedDarwinAllowed(sysname) == sysname \notin {"Linux", "Darwin"}

\* uname.sysname != "Linux", line 41.
PlatformUnsupported(sysname) == sysname # "Linux"

\* Lines 40-42.
PlatformGuard(I) ==
    /\ pc = "uname"
    /\ \E sysname \in I.sysname :
        /\ uname' = sysname
        /\ IF PlatformUnsupported(sysname)
           THEN /\ outcome' = [kind |-> "NotApplicable", report |-> <<>>]
                /\ pc' = "done"
                /\ UNCHANGED <<results, exc>>
           ELSE Continue("daemon_pid_file", results)
    /\ UNCHANGED <<PYTHON_LIB_PRESENT, rclient_version, attempted, io, locals, seen>>

\* The class the handler of line 47 names.
EnvHandlerClass == "KeyError"

\* Lines 45-48: os.environ["XDG_RUNTIME_DIR"] raises KeyError when unset.
DaemonPidFile(I) ==
    /\ pc = "daemon_pid_file"
    /\ \E xdg \in I.xdg :
        IF xdg = "set"
        THEN /\ locals' = [locals EXCEPT !.daemon_pid_file = "xdg"]
             /\ Continue("daemon_installed", results)
        ELSE IF Catches(EnvHandlerClass, "KeyError")
        THEN /\ locals' = [locals EXCEPT !.daemon_pid_file = "fallback"]
             /\ Continue("daemon_installed", results)
        ELSE /\ Raise("KeyError", "env_missing", DaemonRunningName)
             /\ UNCHANGED locals
    /\ UNCHANGED <<PYTHON_LIB_PRESENT, rclient_version, attempted, io, uname, seen>>

\* Lines 51-57: shutil.which("openrazer-daemon") != None
DaemonInstalled(I) ==
    /\ pc = "daemon_installed"
    /\ \E which \in I.which :
        Continue("daemon_running", AppendResult(results, DaemonInstalledName, PyBool(which)))
    /\ attempted' = attempted \cup {DaemonInstalledName}
    /\ io' = io \cup {"file"}
    /\ UNCHANGED <<PYTHON_LIB_PRESENT, rclient_version, uname, locals, seen>>

\* Lines 60-74.  pid is the state of the PID file: "absent", "unreadable"
\* (open raises), "garbage" (int raises), "dead" (no /proc/<pid>) or "live".
DaemonRunning(I) ==
    /\ pc = "daemon_running"
    /\ \E pid \in I.pid :
        /\ seen' = [seen EXCEPT !.pid = pid]
        /\ CASE pid = "unreadable" -> Raise("PermissionError", "file_unreadable", DaemonRunningName)
             [] pid = "garbage" -> Raise("ValueError", "bad_pid", DaemonRunningName)
             [] OTHER ->
                  LET daemon_running == (pid # "absent") /\ (pid = "live")
                  IN  Continue("python_library",
                               AppendResult(results, DaemonRunningName, PyBool(daemon_running)))
    /\ attempted' = attempted \cup {DaemonRunningName}
    /\ io' = io \cup {"file"}
    /\ UNCHANGED <<PYTHON_LIB_PRESENT, rclient_version, uname, locals>>

\* Lines 77-84.
PythonLibrary(I) ==
    /\ pc = "python_library"
    /\ Continue("dkms", AppendResult(results, PythonLibraryName, PyBool(PYTHON_LIB_PRESENT)))
    /\ attempted' = attempted \cup {PythonLibraryName}
    /\ UNCHANGED <<PYTHON_LIB_PRESENT, rclient_version, io, uname, locals, seen>>

\* Lines 87-116: the two os.path.exists of lines 97-98.
Dkms(I) ==
    /\ pc = "dkms"
    /\ IF PYTHON_LIB_PRESENT
       THEN \E src \in I.dkms_src, built \in I.dkms_built :
               LET dkms_installed_src == PyBool(src)
                   dkms_installed_built == PyBool(built)
               IN  /\ locals' = [locals EXCEPT !.dkms_installed_built = dkms_installed_built]
                   /\ Continue("module_probe",
                          AppendResult(
                              AppendResult(results, DkmsSourcesName, dkms_installed_src),
                              DkmsBuiltName, dkms_installed_built))
                   /\ attempted' = attempted \cup {DkmsSourcesName, DkmsBuiltName}
                   /\ io' = io \cup {"file"}
       ELSE /\ Continue("module_probe", results)
            /\ UNCHANGED <<locals, attempted, io>>
    /\ UNCHANGED <<PYTHON_LIB_PRESENT, rclient_version, uname, seen>>

\* Lines 119-130: modprobe is "missing" (Popen raises), "exit0" or "exit1".
ModuleProbe(I) ==
    /\ pc = "module_probe"
    /\ \E modprobe \in I.modprobe :
        IF modprobe = "missing"
        THEN Raise("FileNotFoundError", "tool_missing", ModuleProbeName)
        ELSE LET code == IF modprobe = "exit0" THEN 0 ELSE 1
             IN  Continue("module_loaded",
                          AppendResult(results, ModuleProbeName, PyBool(code = 0)))
    /\ attempted' = attempted \cup {ModuleProbeName}
    /\ io' = io \cup {"subprocess"}
    /\ UNCHANGED <<PYTHON_LIB_PRESENT, rclient_version, uname, locals, seen>>

\* Lines 133-143: lsmod is "missing", "razer" (the output names a razer
\* module) or "other".
ModuleLoaded(I) ==
    /\ pc = "module_loaded"
    /\ \E lsmod \in I.lsmod :
        IF lsmod = "missing"
        THEN Raise("FileNotFoundError", "tool_missing", ModuleLoadedName)
        ELSE Continue("secure_boot",
                      AppendResult(results, ModuleLoadedName, PyBool(lsmod = "razer")))
    /\ attempted' = attempted \cup {ModuleLoadedName}
    /\ io' = io \cup {"subprocess"}
    /\ UNCHANGED <<PYTHON_LIB_PRESENT, rclient_version, uname, locals, seen>>

\* The first byte instead of the last.
OdStatusFirst(content) ==
    IF content = <<>> THEN NotANumber ELSE content[1]

\* .split(" ")[-1].strip() of the od output for a file of these bytes: the
\* decimal of the last byte, or the empty string (NotANumber to int()) when od
\* printed nothing.
OdStatus(content) ==
    IF content = <<>> THEN NotANumber ELSE content[Len(content)]

\* Lines 146-174.  efi is "nodir" (no /sys/firmware/efi), "novar" (the glob
\* is empty) or "var"; od says whether the od tool is installed; content is
\* the bytes of the SecureBoot variable.
SecureBoot(I) ==
    /\ pc = "secure_boot"
    /\ \E efi \in I.efi :
        CASE efi = "nodir" ->
               /\ seen' = [seen EXCEPT !.efi = efi]
               /\ Continue("plugdev", results)
               /\ io' = io \cup {"file"}
          [] efi = "novar" ->
               /\ seen' = [seen EXCEPT !.efi = efi]
               /\ Continue("plugdev", AppendResult(results, SecureBootName, PyNone))
               /\ io' = io \cup {"file"}
          [] OTHER ->
               \E od \in I.od, content \in I.sb_content :
                   /\ io' = io \cup {"file", "subprocess"}
                   /\ IF ~od
                      THEN /\ seen' = [seen EXCEPT !.efi = efi]
                           /\ Raise("FileNotFoundError", "tool_missing", SecureBootName)
                      ELSE LET status == OdStatus(content)
                           IN  /\ seen' = [seen EXCEPT !.efi = efi, !.sb_content = content]
                               /\ IF status = NotANumber
                                  THEN Raise("ValueError", "bad_od_output", SecureBootName)
                                  ELSE Continue("plugdev",
                                           AppendResult(results, SecureBootName,
                                                        PyBool(status = 0)))
    /\ attempted' = attempted \cup {SecureBootName}
    /\ UNCHANGED <<PYTHON_LIB_PRESENT, rclient_version, uname, locals>>

\* Lines 177-186: groups is "missing", "plugdev" (the output names the
\* group) or "other".
Plugdev(I) ==
    /\ pc = "plugdev"
    /\ \E groups \in I.groups :
        IF groups = "missing"
        THEN Raise("FileNotFoundError", "tool_missing", PlugdevName)
        ELSE Continue("log_permission",
                      AppendResult(results, PlugdevName, PyBool(groups = "plugdev")))
    /\ attempted' = attempted \cup {PlugdevName}
    /\ io' = io \cup {"subprocess"}
    /\ UNCHANGED <<PYTHON_LIB_PRESENT, rclient_version, uname, locals, seen>>

\* Lines 189-201: log is "absent", "unreadable" (open raises), "marker" (the
\* text holds "Could not access /sys/") or "clean".
LogPermission(I) ==
    /\ pc = "log_permission"
    /\ \E log \in I.log :
        /\ seen' = [seen EXCEPT !.log = log]
        /\ CASE log = "absent" -> Continue("unsupported_hardware", results)
             [] log = "unreadable" ->
                  Raise("PermissionError", "file_unreadable", LogPermissionName)
             [] OTHER ->
                  Continue("unsupported_hardware",
                           AppendResult(results, LogPermissionName, PyBool(log # "marker")))
    /\ attempted' = attempted \cup {LogPermissionName}
    /\ io' = io \cup {"file"}
    /\ UNCHANGED <<PYTHON_LIB_PRESENT, rclient_version, uname, locals>>

\* The condition of line 255 without the DKMS test.
UnsupportedHardwareAppliesLibOnly == PYTHON_LIB_PRESENT

\* The condition of line 255.
UnsupportedHardwareApplies ==
    PYTHON_LIB_PRESENT /\ Truthy(locals.dkms_installed_built)

\* Lines 255-265, with the call of _get_filtered_lsusb_list.  usb is what
\* lsusb answers ([available, lines]) and devices the DeviceManager's list.
UnsupportedHardware(I) ==
    /\ pc = "unsupported_hardware"
    /\ IF UnsupportedHardwareApplies
       THEN \E usb \in I.lsusb, devices \in I.devices :
               LET lsusb == [asked |-> TRUE, available |-> usb.available,
                             lines |-> IF usb.available THEN usb.lines ELSE <<>>]
                   \* DeviceManager() is reached only after the lines are parsed
                   known == IF usb.available /\ ParseLsusb(usb.lines, <<>>).raised = ""
                            THEN devices ELSE <<>>
                   unsupported_devices == GetFilteredLsusbList(lsusb, known)
               IN  /\ seen' = [seen EXCEPT !.lsusb = lsusb, !.devices = known]
                   /\ locals' = [locals EXCEPT !.unsupported_devices = unsupported_devices]
                   /\ IF unsupported_devices.raised # ""
                      THEN Raise(unsupported_devices.raised,
                                 IF unsupported_devices.raised = "FileNotFoundError"
                                 THEN "tool_missing" ELSE "malformed_line",
                                 UnsupportedHardwareName)
                      ELSE IF unsupported_devices.is_list
                      THEN Continue("latest_version",
                               AppendResult(results, UnsupportedHardwareName,
                                   PyBool(Len(unsupported_devices.unreg_ids) = 0)))
                      ELSE Continue("latest_version", results)
                   /\ attempted' = attempted \cup {UnsupportedHardwareName}
                   /\ io' = io \cup {"subprocess"}
       ELSE /\ Continue("latest_version", results)
            /\ UNCHANGED <<seen, locals, attempted, io>>
    /\ UNCHANGED <<PYTHON_LIB_PRESENT, rclient_version, uname>>

RequestHandlerClassValueError == "ValueError"

\* The class the handler of line 277 names.
RequestHandlerClass == "Exception"

\* Lines 271-280: the version the site answered, <<>> for None.  request is
\* [raised, status_code, text], text being request.text.strip().split(".").
RemoteVersion(request) ==
    IF request.raised
    THEN <<>>
    ELSE IF request.status_code = 200 /\ Len(request.text) = 3
    THEN request.text
    ELSE <<>>

\* Lines 267-315.
LatestVersion(I) ==
    /\ pc = "latest_version"
    /\ IF PYTHON_LIB_PRESENT
       THEN \E req \in I.request :
               LET local_version == rclient_version
                   request == [asked |-> TRUE, raised |-> req.raised,
                               status_code |-> req.status_code, text |-> req.text]
                   remote_version == RemoteVersion(request)
               IN  /\ seen' = [seen EXCEPT !.request = request]
                   /\ attempted' = attempted \cup {LatestVersionName}
                   /\ io' = io \cup {"http"}
                   /\ IF request.raised /\ ~Catches(RequestHandlerClass, "ConnectionError")
                      THEN /\ Raise("ConnectionError", "network", LatestVersionName)
                           /\ UNCHANGED locals
                      ELSE /\ locals' = [locals EXCEPT !.remote_version = remote_version]
                           /\ IF remote_version # <<>>
                              THEN IF VersionRaises(remote_version, local_version)
                                   THEN Raise("ValueError", "bad_version", LatestVersionName)
                                   ELSE Continue("return",
                                            AppendResult(results, LatestVersionName,
                                                PyBool(IsVersionNewerThen(remote_version,
                                                           local_version) # TRUE)))
                              ELSE Continue("return",
                                       AppendResult(results, LatestVersionName, PyNone))
       ELSE /\ Continue("return", results)
            /\ UNCHANGED <<seen, locals, attempted, io>>
    /\ UNCHANGED <<PYTHON_LIB_PRESENT, rclient_version, uname>>

\* Line 322.
Return ==
    /\ pc = "return"
    /\ outcome' = [kind |-> "Report", report |-> results]
    /\ pc' = "done"
    /\ UNCHANGED <<PYTHON_LIB_PRESENT, rclient_version, results, exc, attempted, io,
                   uname, locals, seen>>

\* One run of troubleshoot() over the input sets I.
Troubleshoot(I) ==
    \/ PlatformGuard(I)
    \/ DaemonPidFile(I)
    \/ DaemonInstalled(I)
    \/ DaemonRunning(I)
    \/ PythonLibrary(I)
    \/ Dkms(I)
    \/ ModuleProbe(I)
    \/ ModuleLoaded(I)
    \/ SecureBoot(I)
    \/ Plugdev(I)
    \/ LogPermission(I)
    \/ UnsupportedHardware(I)
    \/ LatestVersion(I)
    \/ Return

----------------------------------------------------------------------------
(* Inputs *)

\* Sequences over S of length at most n.
SeqsUpTo(S, n) == UNION {[1..k -> S] : k \in 0..n}

\* A token without ":" and one "vid:pid" token.
Word == << <<"w">> >>
IdToken(vid, pid) == <<vid, pid>>

\* "Bus 001 Device 002: ID <vid>:<pid> ..."
UsbLine(vid, pid) == <<Word, Word, Word, Word, Word, IdToken(vid, pid), Word>>

RazerKnownLine == UsbLine(<<"1", "5", "3", "2">>, <<"0", "2", "0", "3">>)
RazerNewLine == UsbLine(<<"1", "5", "3", "2">>, <<"0", "a", "1", "b">>)
LogitechLine == UsbLine(<<"0", "4", "6", "d">>, <<"c", "5", "2", "b">>)
\* Fewer than six tokens.
ShortLine == <<Word, Word>>
\* Six tokens, the sixth without ":".
NoColonLine == <<Word, Word, Word, Word, Word, Word>>

\* 0x1532:0x0203, 0x1532:0x0a1b, 0x046d:0xc52b, and a device whose ids
\* cannot be read.
RazerKnownDevice == [readable |-> TRUE, _vid |-> 5426, _pid |-> 515]
RazerNewDevice == [readable |-> TRUE, _vid |-> 5426, _pid |-> 2587]
LogitechDevice == [readable |-> TRUE, _vid |-> 1133, _pid |-> 50475]
BrokenDevice == [readable |-> FALSE, _vid |-> 0, _pid |-> 0]

LsusbMissing == [available |-> FALSE, lines |-> <<>>]
LsusbOutput(lines) == [available |-> TRUE, lines |-> lines]

HttpRaised == [raised |-> TRUE, status_code |-> 0, text |-> <<>>]
HttpResponse(status_code, text) ==
    [raised |-> FALSE, status_code |-> status_code, text |-> text]

MaxLines == 2
MaxDevices == 2
MaxMajor == 3
MaxPart == 10

Versions == {<<a, b, c>> : a \in 0..MaxMajor, b \in 0..MaxPart, c \in 0..MaxPart}

\* Every check sees each of its cases.
PipelineInputs ==
    [sysname |-> {"Linux", "Darwin"},
     lib |-> BOOLEAN,
     local_version |-> {<<3, 0, 0>>},
     xdg |-> {"set", "unset"},
     which |-> BOOLEAN,
     pid |-> {"absent", "unreadable", "garbage", "dead", "live"},
     dkms_src |-> BOOLEAN,
     dkms_built |-> BOOLEAN,
     modprobe |-> {"missing", "exit0", "exit1"},
     lsmod |-> {"missing", "razer", "other"},
     efi |-> {"nodir", "novar", "var"},
     od |-> BOOLEAN,
     sb_content |-> {<<>>, <<6, 0, 0, 0, 0>>, <<6, 0, 0, 0, 1>>, <<0, 0, 0, 0, 1>>},
     groups |-> {"missing", "plugdev", "other"},
     log |-> {"absent", "unreadable", "marker", "clean"},
     lsusb |-> {LsusbMissing,
                LsusbOutput(<<RazerKnownLine, LogitechLine>>),
                LsusbOutput(<<RazerNewLine, EmptyLine>>),
                LsusbOutput(<<ShortLine, RazerKnownLine>>)},
     devices |-> {<<>>, <<RazerKnownDevice>>},
     request |-> {HttpRaised,
                  HttpResponse(404, <<0>>),
                  HttpResponse(200, <<NotANumber>>),
                  HttpResponse(200, <<3, 0, 0>>),
                  HttpResponse(200, <<3, 0, 1>>),
                  HttpResponse(200, <<3, NotANumber, 0>>)}]

\* A healthy host; only the USB enumeration and the device list vary.
UsbInputs ==
    [sysname |-> {"Linux"},
     lib |-> {TRUE},
     local_version |-> {<<3, 0, 0>>},
     xdg |-> {"set"},
     which |-> {TRUE},
     pid |-> {"live"},
     dkms_src |-> {TRUE},
     dkms_built |-> {TRUE},
     modprobe |-> {"exit0"},
     lsmod |-> {"razer"},
     efi |-> {"nodir"},
     od |-> {TRUE},
     sb_content |-> {<<6, 0, 0, 0, 0>>},
     groups |-> {"plugdev"},
     log |-> {"absent"},
     lsusb |-> {LsusbMissing} \cup
               {LsusbOutput(lines) :
                   lines \in SeqsUpTo({RazerKnownLine, RazerNewLine, LogitechLine,
                                       ShortLine, NoColonLine, EmptyLine}, MaxLines)},
     devices |-> SeqsUpTo({RazerKnownDevice, RazerNewDevice, LogitechDevice,
                           BrokenDevice}, MaxDevices),
     request |-> {HttpRaised}]

\* A healthy host; only the installed and the published version vary.
VersionInputs ==
    [UsbInputs EXCEPT
        !.local_version = Versions,
        !.dkms_built = {FALSE},
        !.lsusb = {LsusbMissing},
        !.devices = {<<>>},
        !.request = {HttpResponse(200, v) : v \in Versions}]

Init == InitWith(PipelineInputs)
Next == Troubleshoot(PipelineInputs)
Spec == Init /\ [][Next]_vars

InitUsb == InitWith(UsbInputs)
NextUsb == Troubleshoot(UsbInputs)
SpecUsb == InitUsb /\ [][NextUsb]_vars

InitVersion == InitWith(VersionInputs)
NextVersion == Troubleshoot(VersionInputs)
SpecVersion == InitVersion /\ [][NextVersion]_vars

----------------------------------------------------------------------------
(* Reading a report *)

HasResult(rs, name) == \E i \in 1..Len(rs) : rs[i].test_name = name

\* The "passed" of the result of that name, for a report that has one.
PassedOf(rs, name) == rs[CHOOSE i \in 1..Len(rs) : rs[i].test_name = name].passed

\* The order the claims give the checks.
CheckOrder ==
    <<DaemonInstalledName, DaemonRunningName, PythonLibraryName, DkmsSourcesName,
      DkmsBuiltName, ModuleProbeName, ModuleLoadedName, SecureBootName, PlugdevName,
      LogPermissionName, UnsupportedHardwareName, LatestVersionName>>

CheckNames == {CheckOrder[i] : i \in 1..Len(CheckOrder)}

PositionOf(name) == CHOOSE i \in 1..Len(CheckOrder) : CheckOrder[i] = name

\* The check of that name has run to its end.
Completed(name) == name \in attempted /\ exc.at # name

\* The checks that run on this host when nothing raises.
ApplicableChecks ==
    {DaemonInstalledName, DaemonRunningName, PythonLibraryName, ModuleProbeName,
     ModuleLoadedName, SecureBootName, PlugdevName, LogPermissionName}
    \cup (IF PYTHON_LIB_PRESENT
          THEN {DkmsSourcesName, DkmsBuiltName, LatestVersionName} ELSE {})
    \cup (IF PYTHON_LIB_PRESENT /\ locals.dkms_installed_built = PyTrue
          THEN {UnsupportedHardwareName} ELSE {})

----------------------------------------------------------------------------
(* C1: troubleshoot() returns nothing before its end, and at its end it has *)
(* returned NotApplicable, a report or a Fatal string: never an exception.  *)
(* A report is returned only when no check raised and every applicable      *)
(* check has run, and it is the whole list; once a check has raised, the    *)
(* return is Fatal and carries no report.  Before the end a step is always  *)
(* enabled, so every run ends.                                              *)
C1_ThreeOutcomes ==
    /\ pc # "done" => outcome = Running /\ exc = NoExc /\ ENABLED Next
    /\ pc = "done" => outcome.kind \in {"NotApplicable", "Report", "Fatal"}
    /\ outcome.kind = "Report" =>
          /\ exc = NoExc
          /\ outcome.report = results
          /\ attempted = ApplicableChecks
    /\ exc # NoExc => outcome.kind = "Fatal" /\ outcome.report = <<>>
    /\ outcome.kind = "Fatal" => exc # NoExc

\* A check raised after three results were appended, and the return is Fatal.
C1_Witness ==
    /\ pc = "done"
    /\ outcome.kind = "Fatal"
    /\ exc.type = "ValueError"
    /\ Len(results) >= 3

(* C2: on a platform that is not Linux troubleshoot() returns NotApplicable *)
(* with no check started, no file read, no subprocess, no HTTP request and  *)
(* no result appended; and NotApplicable is returned on no other platform.  *)
C2_PlatformGuard ==
    /\ (uname # "" /\ uname # "Linux") =>
          /\ pc = "done"
          /\ outcome.kind = "NotApplicable"
          /\ attempted = {}
          /\ io = {}
          /\ results = <<>>
          /\ exc = NoExc
    /\ outcome.kind = "NotApplicable" => uname # "Linux"

C2_Witness == uname = "Darwin" /\ pc = "done" /\ outcome.kind = "NotApplicable"

(* C4: when the reconciliation returns a list, a connected device is in the  *)
(* unsupported list iff its vendor id is 1532 and its pair is not among the  *)
(* known devices' pairs, every unsupported device is a connected one, and    *)
(* the check passed iff the list is empty.  With (1532,0203) and (046D,C52B) *)
(* connected, the known device 1532:0203 gives the empty list and Passed,    *)
(* no known device gives [(1532,0203)] and Failed.                           *)
C4_Reconciliation ==
    LET u == locals.unsupported_devices
        razer0203 == <<RazerVid, <<"0", "2", "0", "3">>>>
        logitech == <<<<"0", "4", "6", "D">>, <<"C", "5", "2", "B">>>>
        example == seen.lsusb.lines = <<RazerKnownLine, LogitechLine>>
    IN  (Completed(UnsupportedHardwareName) /\ u.is_list) =>
          /\ \A i \in 1..Len(u.all_usb_ids) :
                InList(u.all_usb_ids[i], u.unreg_ids)
                    <=> (/\ u.all_usb_ids[i][1] = RazerVid
                         /\ ~InList(u.all_usb_ids[i], u.reg_ids))
          /\ \A j \in 1..Len(u.unreg_ids) : InList(u.unreg_ids[j], u.all_usb_ids)
          /\ HasResult(results, UnsupportedHardwareName)
          /\ PassedOf(results, UnsupportedHardwareName) = PyBool(u.unreg_ids = <<>>)
          /\ example => u.all_usb_ids = <<razer0203, logitech>>
          /\ (example /\ seen.devices = <<RazerKnownDevice>>) =>
                /\ u.reg_ids = <<razer0203>>
                /\ u.unreg_ids = <<>>
                /\ PassedOf(results, UnsupportedHardwareName) = PyTrue
          /\ (example /\ seen.devices = <<>>) =>
                /\ u.unreg_ids = <<razer0203>>
                /\ PassedOf(results, UnsupportedHardwareName) = PyFalse

\* The second example: both devices connected, none known, the check failed.
C4_Witness ==
    /\ Completed(UnsupportedHardwareName)
    /\ seen.lsusb.lines = <<RazerKnownLine, LogitechLine>>
    /\ seen.devices = <<>>
    /\ Len(locals.unsupported_devices.unreg_ids) = 1
    /\ HasResult(results, UnsupportedHardwareName)
    /\ PassedOf(results, UnsupportedHardwareName) = PyFalse

C7_NetworkFailure ==
    LET r == seen.request
    IN  (r.asked /\ (r.raised \/ r.status_code # 200 \/ Len(r.text) # 3)) =>
          /\ PYTHON_LIB_PRESENT
          /\ exc = NoExc
          /\ outcome.kind # "Fatal"
          /\ locals.remote_version = <<>>
          /\ HasResult(results, LatestVersionName)
          /\ PassedOf(results, LatestVersionName) = PyNone
          /\ pc \in {"return", "done"}
          /\ pc = "done" =>
                /\ outcome.kind = "Report"
                /\ PassedOf(outcome.report, LatestVersionName) = PyNone

\* The request raised and the report came back.
C7_Witness ==
    /\ seen.request.asked
    /\ seen.request.raised
    /\ outcome.kind = "Report"
    /\ PassedOf(outcome.report, LatestVersionName) = PyNone

(* C8: at every point the list of results, and so every returned report, is  *)
(* an order-preserving subsequence of the fixed check order: every name is   *)
(* one of the twelve, and the names' positions in that order are strictly    *)
(* increasing, so no name occurs twice.                                      *)
C8_FixedOrder ==
    \A rs \in {results, outcome.report} :
        /\ \A i \in 1..Len(rs) : rs[i].test_name \in CheckNames
        /\ \A i, j \in 1..Len(rs) :
              i < j => PositionOf(rs[i].test_name) < PositionOf(rs[j].test_name)

\* A returned report with all twelve checks.
C8_Witness == outcome.kind = "Report" /\ Len(outcome.report) = 12

(* C10: in a returned report the six unconditional checks are present; the   *)
(* two DKMS results and the latest-version result are present iff the        *)
(* library flag is true; the unsupported-hardware result is present iff the  *)
(* flag is true, the DKMS-built result is Passed and lsusb is installed      *)
(* (absent, not Failed, without lsusb); the log result is present iff the    *)
(* log file exists.                                                          *)
C10_Presence ==
    LET rs == outcome.report
    IN  outcome.kind = "Report" =>
          /\ \A name \in {DaemonInstalledName, DaemonRunningName, PythonLibraryName,
                           ModuleProbeName, ModuleLoadedName, PlugdevName} :
                HasResult(rs, name)
          /\ \A name \in {DkmsSourcesName, DkmsBuiltName, LatestVersionName} :
                HasResult(rs, name) <=> PYTHON_LIB_PRESENT
          /\ HasResult(rs, UnsupportedHardwareName) =>
                /\ PYTHON_LIB_PRESENT
                /\ PassedOf(rs, DkmsBuiltName) = PyTrue
          /\ HasResult(rs, UnsupportedHardwareName) <=>
                (seen.lsusb.asked /\ seen.lsusb.available)
          /\ seen.lsusb.asked <=>
                (PYTHON_LIB_PRESENT /\ PassedOf(rs, DkmsBuiltName) = PyTrue)
          /\ HasResult(rs, LogPermissionName) <=> seen.log \in {"marker", "clean"}
          /\ seen.log \in {"marker", "clean", "absent"}

\* A report after failed checks, with the DKMS module built and no lsusb:
\* the unsupported-hardware and log results are left out, the others are there.
C10_Witness ==
    /\ outcome.kind = "Report"
    /\ PYTHON_LIB_PRESENT
    /\ PassedOf(outcome.report, DaemonInstalledName) = PyFalse
    /\ PassedOf(outcome.report, ModuleProbeName) = PyFalse
    /\ PassedOf(outcome.report, DkmsBuiltName) = PyTrue
    /\ seen.lsusb.asked /\ ~seen.lsusb.available
    /\ ~HasResult(outcome.report, UnsupportedHardwareName)
    /\ seen.log = "absent"
    /\ ~HasResult(outcome.report, LogPermissionName)
    /\ HasResult(outcome.report, LatestVersionName)

----------------------------------------------------------------------------
(* Statements the code does not meet *)

(* C3: the latest-version check finds the published version newer, and so    *)
(* does not pass, iff its major is greater, or the majors are equal and      *)
(* minor.patch read as one decimal number is greater.                        *)
C3_IsNewer ==
    LET remote == locals.remote_version
        local == rclient_version
        isNewer == PassedOf(results, LatestVersionName) = PyFalse
    IN  (Completed(LatestVersionName) /\ remote # <<>>) =>
          (isNewer <=>
              \/ remote[1] > local[1]
              \/ /\ remote[1] = local[1]
                 /\ FloatGreater(remote[2], remote[3], local[2], local[3]))

(* C5: on Linux an absent tool (modprobe, lsmod, od, groups, lsusb), an      *)
(* absent optional file or an unset runtime-directory variable never makes   *)
(* the return Fatal: the check concerned is left out or Indeterminate and    *)
(* the run returns its report.                                               *)
C5_AbsenceNeverFatal ==
    /\ outcome.kind = "Fatal" => exc.cause \notin {"tool_missing", "env_missing"}
    /\ outcome.kind = "Report" =>
          /\ seen.efi = "nodir" => ~HasResult(outcome.report, SecureBootName)
          /\ seen.efi = "novar" => PassedOf(outcome.report, SecureBootName) = PyNone
          /\ seen.log = "absent" => ~HasResult(outcome.report, LogPermissionName)
          /\ (seen.lsusb.asked /\ ~seen.lsusb.available) =>
                ~HasResult(outcome.report, UnsupportedHardwareName)

\* A line with six tokens or more whose sixth token has a ":".
WellFormedLine(usb) == Len(usb) >= 6 /\ Len(usb[6]) >= 2

(* C9: whatever lines lsusb prints, the scan reads them all: nothing raises, *)
(* the return is not Fatal, and the connected ids are those of the           *)
(* well-formed lines, in order.                                              *)
C9_MalformedLinesDiscarded ==
    LET good == SelectSeq(seen.lsusb.lines, WellFormedLine)
    IN  (seen.lsusb.asked /\ seen.lsusb.available) =>
          /\ exc = NoExc
          /\ outcome.kind # "Fatal"
          /\ locals.unsupported_devices.is_list
          /\ locals.unsupported_devices.all_usb_ids
                = [i \in 1..Len(good) |-> <<Upper(good[i][6][1]), Upper(good[i][6][2])>>]

====
